---- MODULE Spec2Model ----
(***************************************************************************)
(* A model of dotfile-manager: path resolution (util.rs make_abs),         *)
(* AbsDotfile::new / link / link_interactive (dotfile.rs), the dotfile     *)
(* list loader and the Nix evaluator adapter (config.rs, nix.rs) and the   *)
(* config resolver (config.rs).                                            *)
(*                                                                         *)
(* A path is a sequence of components; an absolute path starts with the    *)
(* root component "/".  "." and ".." are ordinary components until the     *)
(* operating system resolves them.  The filesystem is a finite tree of     *)
(* nodes keyed by canonical absolute paths.                                *)
(***************************************************************************)
EXTENDS Integers, Sequences, FiniteSets, TLC

VARIABLES
    fs,        \* the filesystem: canonical absolute path -> entry
    cwd,       \* the process's working directory (a canonical directory path)
    home,      \* dirs::home_dir(): <<>> (None) or <<path>> (Some(path))
    pc,        \* position of the caller inside the operation in progress
    entry,     \* the AbsDotfile being installed: [repo, installed]
    origin,    \* how entry was produced, and from which inputs
    fs0,       \* the filesystem when link_interactive was entered
    log,       \* the policy queries and filesystem calls of the current install
    result,    \* the io::Result returned by the operation
    mk,        \* the last direct make_abs call: [base, p, out]
    ld,        \* the loader's world and its last result
    cf,        \* the config resolver's world and its last result
    bt         \* the batch over the declared list: progress and record

vars == <<fs, cwd, home, pc, entry, origin, fs0, log, result, mk, ld, cf, bt>>

\* ------------------------------------------------------------------ bounds

\* Symbolic links followed in one path resolution before ELOOP.
MaxHops == 3
\* Longest standard-error output of the evaluator, in bytes.
MaxErrLen == 2
\* Longest logical dotfile list loaded in every format.
MaxList == 2
\* Longest declared list installed as a batch.
MaxBatch == 3

\* ------------------------------------------------------------------- paths

Root == <<"/">>
NoPath == <<>>

IsAbsolute(p) == Len(p) > 0 /\ p[1] = "/"

Front(p) == SubSeq(p, 1, Len(p) - 1)
Last(p) == p[Len(p)]

\* The parent of a canonical absolute path; the root is its own parent.
ParentOf(n) == IF Len(n) <= 1 THEN Root ELSE Front(n)

\* Path::join: an absolute argument replaces the base.
Join(base, p) == IF IsAbsolute(p) THEN p ELSE base \o p

\* -------------------------------------------------------------- filesystem

Absent == [kind |-> "absent", content |-> "", target |-> NoPath]
Dir == [kind |-> "dir", content |-> "", target |-> NoPath]
File(c) == [kind |-> "file", content |-> c, target |-> NoPath]
Symlink(t) == [kind |-> "symlink", content |-> "", target |-> t]

HomeDir == <<"/", "h">>
RepoDir == <<"/", "h", "r">>
RepoA == <<"/", "h", "r", "a">>
InstA == <<"/", "h", "a">>
InstAX == <<"/", "h", "a", "x">>
\* A directory that never exists: paths under it have no parent.
Missing == <<"/", "h", "n">>

Nodes == {Root, HomeDir, RepoDir, RepoA, InstA, InstAX}

Ent(f, n) == IF n \in DOMAIN f THEN f[n] ELSE Absent

Children(f, n) == {m \in DOMAIN f : Len(m) = Len(n) + 1 /\ Front(m) = n /\ f[m].kind # "absent"}

Ok(p) == [ok |-> TRUE, path |-> p, err |-> ""]
Err(e) == [ok |-> FALSE, path |-> NoPath, err |-> e]

\* realpath(3) from directory cur over the components rest, following at
\* most fuel symbolic links.
RECURSIVE Walk(_, _, _, _)
Walk(f, cur, rest, fuel) ==
    IF rest = <<>> THEN Ok(cur)
    ELSE IF Ent(f, cur).kind # "dir" THEN Err("ENOTDIR")
    ELSE LET c == Head(rest)
             t == Tail(rest)
             n == cur \o <<c>>
             e == Ent(f, n)
         IN  IF c = "." THEN Walk(f, cur, t, fuel)
             ELSE IF c = ".." THEN Walk(f, ParentOf(cur), t, fuel)
             ELSE IF e.kind = "absent" THEN Err("ENOENT")
             ELSE IF e.kind = "symlink"
                  THEN IF fuel = 0 THEN Err("ELOOP")
                       ELSE IF e.target = <<>> THEN Err("ENOENT")
                       ELSE IF IsAbsolute(e.target)
                            THEN Walk(f, Root, Tail(e.target) \o t, fuel - 1)
                            ELSE Walk(f, cur, e.target \o t, fuel - 1)
             ELSE Walk(f, n, t, fuel)

\* fs::canonicalize: every component must exist; symlinks, "." and ".." are
\* resolved; a relative path starts at the working directory.
Canonicalize(f, wd, p) ==
    IF p = <<>> THEN Err("ENOENT")
    ELSE IF IsAbsolute(p) THEN Walk(f, Root, Tail(p), MaxHops)
    ELSE Walk(f, wd, p, MaxHops)

\* Path::exists: fs::metadata succeeds; the final symlink is followed.
Exists(f, wd, p) == Canonicalize(f, wd, p).ok

\* Path::is_dir / Path::is_file: metadata of the followed path.
IsDir(f, wd, p) ==
    LET r == Canonicalize(f, wd, p) IN r.ok /\ Ent(f, r.path).kind = "dir"

IsFile(f, wd, p) ==
    LET r == Canonicalize(f, wd, p) IN r.ok /\ Ent(f, r.path).kind = "file"

\* The place a path names without following its last component (lstat,
\* unlink, rmdir, symlink): the resolved parent directory plus the name.
Locate(f, wd, p) ==
    IF p = <<>> THEN Err("ENOENT")
    ELSE IF p = Root \/ Last(p) \in {".", ".."} THEN Canonicalize(f, wd, p)
    ELSE LET par == IF Len(p) = 1 THEN Ok(wd) ELSE Canonicalize(f, wd, Front(p))
         IN  IF ~par.ok THEN par
             ELSE IF Ent(f, par.path).kind # "dir" THEN Err("ENOTDIR")
             ELSE Ok(par.path \o <<Last(p)>>)

\* lstat: the entry at a path, the last component not followed.
LEntry(f, wd, p) ==
    LET l == Locate(f, wd, p) IN IF l.ok THEN Ent(f, l.path) ELSE Absent

\* The outcome of a filesystem call: the error ("" on success) and the
\* filesystem after it.
Done(e, f) == [err |-> e, fs |-> f]

\* fs::remove_file (unlink): removes a file or a symlink, never a directory.
RemoveFile(f, wd, p) ==
    LET l == Locate(f, wd, p) IN
    IF ~l.ok THEN Done(l.err, f)
    ELSE LET e == Ent(f, l.path) IN
         IF e.kind = "absent" THEN Done("ENOENT", f)
         ELSE IF e.kind = "dir" THEN Done("EISDIR", f)
         ELSE Done("", [f EXCEPT ![l.path] = Absent])

\* A forced recursive removal (rm -rf) in place of rmdir.
RemoveDirAll(f, wd, p) ==
    LET l == Locate(f, wd, p) IN
    IF ~l.ok THEN Done(l.err, f)
    ELSE LET e == Ent(f, l.path) IN
         IF e.kind = "absent" THEN Done("ENOENT", f)
         ELSE IF e.kind # "dir" THEN Done("ENOTDIR", f)
         ELSE Done("", [n \in DOMAIN f |->
                 IF Len(n) >= Len(l.path) /\ SubSeq(n, 1, Len(l.path)) = l.path
                 THEN Absent ELSE f[n]])

\* fs::remove_dir (rmdir): removes an empty directory only; the last
\* component is not followed, so a symlink to a directory is ENOTDIR.
RemoveDir(f, wd, p) ==
    LET l == Locate(f, wd, p) IN
    IF ~l.ok THEN Done(l.err, f)
    ELSE LET e == Ent(f, l.path) IN
         IF e.kind = "absent" THEN Done("ENOENT", f)
         ELSE IF e.kind # "dir" THEN Done("ENOTDIR", f)
         ELSE IF Children(f, l.path) # {} THEN Done("ENOTEMPTY", f)
         ELSE Done("", [f EXCEPT ![l.path] = Absent])

\* symlink::symlink_file on unix (std::os::unix::fs::symlink): creates a
\* symlink at dst holding src verbatim; fails when dst is occupied or its
\* parent directory does not resolve.
SymlinkFile(f, wd, src, dst) ==
    LET l == Locate(f, wd, dst) IN
    IF ~l.ok THEN Done(l.err, f)
    ELSE IF Ent(f, l.path).kind # "absent" THEN Done("EEXIST", f)
    ELSE IF src = <<>> \/ l.path \notin DOMAIN f THEN Done("ENOENT", f)
    ELSE Done("", [f EXCEPT ![l.path] = Symlink(src)])

\* --------------------------------------------------------------- util.rs

\* make_abs with the join replaced by concatenation.
MakeAbsConcat(f, wd, base, p) ==
    LET abs == base \o p
        c == Canonicalize(f, wd, abs)
    IN  IF c.ok THEN c.path ELSE abs

\* make_abs: join, then canonicalize, falling back to the joined path.
make_abs(f, wd, base, p) ==
    LET abs == Join(base, p)
        c == Canonicalize(f, wd, abs)
    IN  IF c.ok THEN c.path ELSE abs

\* ------------------------------------------------------------ dotfile.rs

\* Some(p) / None for an optional path.
Some(p) == <<p>>
None == <<>>

\* Dotfile::repo
DotfileRepo(d) == d.repo

\* Dotfile::installed: the installed field, or repo when it is None.
DotfileInstalled(d) == IF d.installed = None THEN d.repo ELSE d.installed[1]

\* AbsDotfile::new once home_dir() has answered Some(h): repo is resolved
\* against cfg.dotfile_repo as given, installed against the home directory.
AbsDotfileNew(f, wd, h, d, repoBase) ==
    [repo |-> make_abs(f, wd, repoBase, DotfileRepo(d)),
     installed |-> make_abs(f, wd, h, DotfileInstalled(d))]

\* The build target; symlink_dir is only chosen off unix.
Unix == TRUE

\* symlink::symlink_dir: on unix the same call as symlink_file.
SymlinkDir(f, wd, src, dst) == SymlinkFile(f, wd, src, dst)

\* AbsDotfile::link
link(f, wd, e) ==
    IF Unix \/ IsFile(f, wd, e.repo)
    THEN SymlinkFile(f, wd, e.repo, e.installed)
    ELSE SymlinkDir(f, wd, e.repo, e.installed)

\* The conflict test with every install treated as a conflict.
ConflictAlways(f, wd, e) == TRUE

\* link_interactive's conflict test: self.installed.exists().
Conflict(f, wd, e) == Exists(f, wd, e.installed)

\* The branch on the answer with its sense inverted.
OnAnswerInverted(ans) ==
    CASE ans = "decline" -> [pc |-> "remove", result |-> "none"]
      [] ans = "accept" -> [pc |-> "done", result |-> "AlreadyExists"]
      [] OTHER -> [pc |-> "done", result |-> "PromptError"]

\* link_interactive's branch on should_overwrite()?: Ok(true) goes on to the
\* removal, Ok(false) returns AlreadyExists, Err is propagated.
OnAnswer(ans) ==
    CASE ans = "accept" -> [pc |-> "remove", result |-> "none"]
      [] ans = "decline" -> [pc |-> "done", result |-> "AlreadyExists"]
      [] OTHER -> [pc |-> "done", result |-> "PromptError"]

\* link_interactive's removal: remove_dir when installed.is_dir() (which
\* follows a symlink), remove_file otherwise.
RemoveExisting(f, wd, e) ==
    IF IsDir(f, wd, e.installed)
    THEN [op |-> "remove_dir"] @@ RemoveDir(f, wd, e.installed)
    ELSE [op |-> "remove_file"] @@ RemoveFile(f, wd, e.installed)

\* ------------------------------------------------------- installer inputs

NoEntry == [repo |-> NoPath, installed |-> NoPath]
NoOrigin == [kind |-> "none", d |-> [repo |-> NoPath, installed |-> None], repoBase |-> NoPath]
NoFs == <<>>
NoMk == [base |-> NoPath, p |-> NoPath, out |-> NoPath]
NoLd == [phase |-> "off"]
NoCf == [phase |-> "off"]
NoBt == [phase |-> "off"]

Answers == {"accept", "decline", "error"}

\* How an install can stop after the removal: the process is killed, or the
\* symlink call fails with an I/O error.
Interruptions == {"Crash", "EIO"}

\* cfg.dotfile_repo: absolute, or relative (documented as home-relative).
RepoBases == {RepoDir, <<"r">>}

Dotfiles ==
    [repo : {<<"a">>, <<"..", "r", "a">>},
     installed : {None, Some(<<"a">>), Some(<<"n", "a">>), Some(InstA)}]

GivenEntries ==
    [repo : {RepoA}, installed : {InstA, Missing \o <<"a">>}]

MakeAbsBases == {HomeDir, RepoDir, Missing}

MakeAbsTargets ==
    {<<"a">>, <<".", "a">>, <<"..", "a">>, <<"a", "..", "r">>, <<"n", "..", "a">>,
     <<"a", "x">>, InstA, RepoA, Missing, <<"/", "h", "a", "..", "r", "a">>}

\* The filesystems an install may find: the repository copy of a is absent,
\* a file or a directory; the installed location is absent, a file, an empty
\* or non-empty directory, or a symlink to the repository copy, to the
\* repository directory or to nothing.
InitFS ==
    {[n \in Nodes |->
        CASE n \in {Root, HomeDir, RepoDir} -> Dir
          [] n = RepoA -> ra
          [] n = InstA -> ia
          [] n = InstAX -> IF ia = Dir /\ full THEN File("user") ELSE Absent] :
     ra \in {Absent, File("repo"), Dir},
     ia \in {Absent, File("user"), Dir, Symlink(RepoA), Symlink(RepoDir),
             Symlink(Missing), Symlink(<<"r", "a">>)},
     full \in BOOLEAN}

\* ------------------------------------------------------ installer actions

InstallerIdle ==
    /\ pc = "idle"
    /\ ld = NoLd /\ cf = NoCf

\* A direct call of util::make_abs.
CallMakeAbs(base, p) ==
    /\ InstallerIdle
    /\ mk' = [base |-> base, p |-> p, out |-> make_abs(fs, cwd, base, p)]
    /\ pc' = "made"
    /\ UNCHANGED <<fs, cwd, home, entry, origin, fs0, log, result, ld, cf, bt>>

\* AbsDotfile::new(d, cfg): fails when home_dir() is None.
New(d, repoBase) ==
    /\ InstallerIdle
    /\ origin' = [kind |-> "new", d |-> d, repoBase |-> repoBase]
    /\ IF home = None
       THEN /\ result' = "NotFound"
            /\ pc' = "done"
            /\ entry' = entry
       ELSE /\ entry' = AbsDotfileNew(fs, cwd, home[1], d, repoBase)
            /\ pc' = "resolved"
            /\ result' = result
    /\ UNCHANGED <<fs, cwd, home, fs0, log, mk, ld, cf, bt>>

\* An AbsDotfile built by the caller (its fields are public).
Given(e) ==
    /\ InstallerIdle
    /\ origin' = [NoOrigin EXCEPT !.kind = "given"]
    /\ entry' = e
    /\ pc' = "resolved"
    /\ UNCHANGED <<fs, cwd, home, fs0, log, result, mk, ld, cf, bt>>

\* link_interactive, entry: the conflict test.
Check ==
    /\ pc = "resolved"
    /\ fs0' = fs
    /\ pc' = IF Conflict(fs, cwd, entry) THEN "ask" ELSE "link"
    /\ UNCHANGED <<fs, cwd, home, entry, origin, log, result, mk, ld, cf, bt>>

\* should_overwrite(): the conflict policy answers.
Answer(ans) ==
    /\ pc = "ask"
    /\ log' = Append(log, [op |-> "query", arg |-> ans])
    /\ pc' = OnAnswer(ans).pc
    /\ result' = OnAnswer(ans).result
    /\ UNCHANGED <<fs, cwd, home, entry, origin, fs0, mk, ld, cf, bt>>

\* The removal of the existing entry after an accepted overwrite.
Remove ==
    /\ pc = "remove"
    /\ LET r == RemoveExisting(fs, cwd, entry) IN
        /\ log' = Append(log, [op |-> r.op, arg |-> r.err])
        /\ fs' = r.fs
        /\ pc' = IF r.err = "" THEN "link" ELSE "done"
        /\ result' = IF r.err = "" THEN result ELSE r.err
    /\ UNCHANGED <<cwd, home, entry, origin, fs0, mk, ld, cf, bt>>

\* self.link(): the last call of link_interactive; its result is returned.
Link ==
    /\ pc = "link"
    /\ LET r == link(fs, cwd, entry) IN
        /\ log' = Append(log, [op |-> "symlink", arg |-> r.err])
        /\ fs' = r.fs
        /\ result' = IF r.err = "" THEN "Ok" ELSE r.err
    /\ pc' = "done"
    /\ UNCHANGED <<cwd, home, entry, origin, fs0, mk, ld, cf, bt>>

\* link_interactive is cut short between the removal and self.link(): the
\* process dies, or the symlink call fails with an I/O error that has
\* nothing to do with the path (the device, the quota).  Neither undoes the
\* removal.
Interrupt(how) ==
    /\ pc = "link"
    /\ \E i \in 1..Len(log) : log[i].op \in {"remove_file", "remove_dir"}
    /\ pc' = "interrupted"
    /\ result' = how
    /\ UNCHANGED <<fs, cwd, home, entry, origin, fs0, log, mk, ld, cf, bt>>

\* The next run calls link_interactive on the same AbsDotfile.
Rerun ==
    /\ pc = "interrupted"
    /\ origin' = [origin EXCEPT !.kind = "rerun"]
    /\ pc' = "resolved"
    /\ fs0' = NoFs
    /\ log' = <<>>
    /\ result' = "none"
    /\ UNCHANGED <<fs, cwd, home, entry, mk, ld, cf, bt>>

\* The call has returned; the caller may call again on the filesystem as
\* it now is.
Return ==
    /\ pc \in {"done", "made"}
    /\ ld = NoLd /\ cf = NoCf
    /\ pc' = "idle"
    /\ entry' = NoEntry
    /\ origin' = NoOrigin
    /\ fs0' = NoFs
    /\ log' = <<>>
    /\ result' = "none"
    /\ mk' = NoMk
    /\ UNCHANGED <<fs, cwd, home, ld, cf, bt>>

Init ==
    /\ fs \in InitFS
    /\ cwd \in {HomeDir, Root}
    /\ home \in {None, Some(HomeDir)}
    /\ pc = "idle"
    /\ entry = NoEntry
    /\ origin = NoOrigin
    /\ fs0 = NoFs
    /\ log = <<>>
    /\ result = "none"
    /\ mk = NoMk
    /\ ld = NoLd
    /\ cf = NoCf
    /\ bt = NoBt

Next ==
    \/ \E base \in MakeAbsBases, p \in MakeAbsTargets : CallMakeAbs(base, p)
    \/ \E d \in Dotfiles, b \in RepoBases : New(d, b)
    \/ \E e \in GivenEntries : Given(e)
    \/ Check
    \/ \E ans \in Answers : Answer(ans)
    \/ Remove
    \/ Link
    \/ \E how \in Interruptions : Interrupt(how)
    \/ Rerun
    \/ Return

Spec == Init /\ [][Next]_vars

\* ------------------------------------------------------------- the batch

\* A second dotfile, b, beside a: its repository copy, its installed
\* location and a file inside that location when it is a directory.
RepoB == <<"/", "h", "r", "b">>
InstB == <<"/", "h", "b">>
InstBX == <<"/", "h", "b", "x">>

BatchNodes == Nodes \cup {RepoB, InstB, InstBX}

\* The filesystems a batch may find: both repository copies are files; the
\* installed location of a is absent or a file, that of b is absent, a
\* file, or an empty or non-empty directory.
InitFSBatch ==
    {[n \in BatchNodes |->
        CASE n \in {Root, HomeDir, RepoDir} -> Dir
          [] n = RepoA -> File("repo")
          [] n = RepoB -> File("repo b")
          [] n = InstA -> ia
          [] n = InstB -> ib
          [] n = InstBX -> IF ib = Dir /\ full THEN File("user") ELSE Absent
          [] OTHER -> Absent] :
     ia \in {Absent, File("user")},
     ib \in {Absent, File("user"), Dir},
     full \in BOOLEAN}

\* The declared entries: a, b, and a under a directory that does not exist.
BatchDotfiles ==
    {[repo |-> <<"a">>, installed |-> None],
     [repo |-> <<"b">>, installed |-> None],
     [repo |-> <<"a">>, installed |-> Some(<<"n", "a">>)]}

\* The declared lists: up to MaxBatch entries, no entry twice.
BatchLists ==
    {l \in UNION {[1..n -> BatchDotfiles] : n \in 0..MaxBatch} :
        \A i \in 1..Len(l), j \in 1..Len(l) : i # j => l[i] # l[j]}

\* The next entry of the list is resolved with AbsDotfile::new.
BatchResolve ==
    /\ bt.phase = "run"
    /\ Len(bt.trail) < Len(bt.list)
    /\ New(bt.list[Len(bt.trail) + 1], RepoDir)

\* The batch going on to the next entry even when one has failed.
BatchAdvanceBestEffort ==
    /\ bt.phase = "run"
    /\ pc = "done"
    /\ bt' = [bt EXCEPT !.trail = Append(@, [d |-> origin.d, entry |-> entry,
                                              log |-> log, result |-> result])]
    /\ pc' = "idle"
    /\ entry' = NoEntry /\ origin' = NoOrigin /\ fs0' = NoFs /\ log' = <<>>
    /\ result' = "none"
    /\ UNCHANGED <<fs, cwd, home, mk, ld, cf>>

\* The current entry has returned: its outcome is recorded; an error ends
\* the batch with that error, success lets the batch go on.
BatchAdvance ==
    /\ bt.phase = "run"
    /\ pc = "done"
    /\ bt' = [bt EXCEPT !.trail = Append(@, [d |-> origin.d, entry |-> entry,
                                              log |-> log, result |-> result]),
                         !.phase = IF result = "Ok" THEN "run" ELSE "finished",
                         !.error = IF result = "Ok" THEN @ ELSE result]
    /\ pc' = "idle"
    /\ entry' = NoEntry /\ origin' = NoOrigin /\ fs0' = NoFs /\ log' = <<>>
    /\ result' = "none"
    /\ UNCHANGED <<fs, cwd, home, mk, ld, cf>>

\* Every entry has been installed: the batch returns Ok.
BatchEnd ==
    /\ bt.phase = "run"
    /\ pc = "idle"
    /\ Len(bt.trail) = Len(bt.list)
    /\ bt' = [bt EXCEPT !.phase = "finished", !.error = "Ok"]
    /\ UNCHANGED <<fs, cwd, home, pc, entry, origin, fs0, log, result, mk, ld, cf>>

InitBatch ==
    /\ fs \in InitFSBatch
    /\ cwd \in {HomeDir, Root}
    /\ home \in {None, Some(HomeDir)}
    /\ \E l \in BatchLists :
        bt = [phase |-> "run", list |-> l, trail |-> <<>>, error |-> "none", found |-> fs]
    /\ pc = "idle"
    /\ entry = NoEntry /\ origin = NoOrigin /\ fs0 = NoFs /\ log = <<>>
    /\ result = "none" /\ mk = NoMk /\ ld = NoLd /\ cf = NoCf

NextBatch ==
    \/ BatchResolve
    \/ Check
    \/ \E ans \in Answers : Answer(ans)
    \/ Remove
    \/ Link
    \/ BatchAdvance
    \/ BatchEnd

SpecBatch == InitBatch /\ [][NextBatch]_vars

\* ------------------------------------------------- installer observations

\* link_interactive has been entered in the current call.
Ran == DOMAIN fs0 # {}

Queries == Cardinality({i \in 1..Len(log) : log[i].op = "query"})
Removals == {i \in 1..Len(log) : log[i].op \in {"remove_file", "remove_dir"}}
Links == {i \in 1..Len(log) : log[i].op = "symlink"}
Accepted == Len(log) >= 1 /\ log[1] = [op |-> "query", arg |-> "accept"]
Declined == Len(log) >= 1 /\ log[1] = [op |-> "query", arg |-> "decline"]

\* What lstat saw at the installed path when link_interactive was entered.
Entry0 == LEntry(fs0, cwd, entry.installed)
Occupied0 == Entry0.kind # "absent"

\* The installed path now.
EntryNow == LEntry(fs, cwd, entry.installed)

\* The nodes whose entry differs from the one at the start of the install.
Changed == {n \in DOMAIN fs : Ent(fs, n) # Ent(fs0, n)}

\* -------------------------------------------------------------- claims

\* C1 (as stated): whenever the installed path is occupied by a file, a
\* directory or a symlink (dangling or not) when install starts, the
\* conflict policy is queried exactly once, and the query precedes every
\* change to the filesystem: while the question is pending nothing has been
\* logged or changed, and past it the log starts with the one query.
C1_OccupiedQueriedOnceFirst ==
    (Ran /\ Occupied0) =>
        /\ pc = "ask" => (log = <<>> /\ fs = fs0)
        /\ pc \in {"remove", "link", "done"} =>
               (Queries = 1 /\ log[1].op = "query")

\* C2: when the policy declines, install returns AlreadyExists, the
\* filesystem is the one install found, and no removal or link was attempted.
C2_DeclineLeavesUntouched ==
    (pc = "done" /\ Declined) =>
        /\ result = "AlreadyExists"
        /\ fs = fs0
        /\ log = <<[op |-> "query", arg |-> "decline"]>>
        /\ Exists(fs0, cwd, entry.installed)

\* C2 witness: a declined overwrite of a regular file has returned.
C2_Witness ==
    /\ pc = "done" /\ Declined
    /\ Entry0 = File("user")
    /\ EntryNow = File("user")

\* The entry at the installed path is one C3 covers: a regular file, a
\* symlink whose target exists, or an empty directory.
C3Covered ==
    \/ Entry0.kind = "file"
    \/ Entry0.kind = "symlink" /\ Exists(fs0, cwd, entry.installed)
    \/ /\ Entry0.kind = "dir"
       /\ Children(fs0, Locate(fs0, cwd, entry.installed).path) = {}

\* C3 (as stated): when the installed path holds a regular file, a symlink
\* to a file or to a directory, or an empty directory, and the policy
\* accepts, install removes the entry (remove_file for files and symlinks,
\* remove_dir for directories), then links, and returns success with the
\* installed path a symlink to repo.
C3_AcceptReachesLinked ==
    (pc = "done" /\ Accepted /\ C3Covered) =>
        /\ result = "Ok"
        /\ EntryNow = Symlink(entry.repo)
        /\ log = <<[op |-> "query", arg |-> "accept"],
                   [op |-> IF Entry0.kind = "dir" THEN "remove_dir" ELSE "remove_file",
                    arg |-> ""],
                   [op |-> "symlink", arg |-> ""]>>

\* C4 (as stated): when nothing exists at the installed path, install asks
\* nothing, removes nothing, creates the symlink to repo and succeeds.
C4_AbsentAlwaysLinks ==
    (pc = "done" /\ Ran /\ ~Occupied0) =>
        /\ Queries = 0
        /\ Removals = {}
        /\ result = "Ok"
        /\ EntryNow = Symlink(entry.repo)

\* C4 (amended): when nothing exists at the installed path and the parent
\* directory of the installed path exists, install asks nothing, removes
\* nothing, creates the symlink to repo and succeeds.
C4_AbsentLinksUnderParent ==
    (pc = "done" /\ Ran /\ ~Occupied0 /\ Locate(fs0, cwd, entry.installed).ok) =>
        /\ Queries = 0
        /\ Removals = {}
        /\ result = "Ok"
        /\ EntryNow = Symlink(entry.repo)
        /\ Changed = {Locate(fs0, cwd, entry.installed).path}

\* C4 witness: an install onto a free path under an existing directory has
\* returned success.
C4_Witness ==
    /\ pc = "done" /\ Ran /\ ~Occupied0
    /\ Locate(fs0, cwd, entry.installed).ok
    /\ result = "Ok"
    /\ log = <<[op |-> "symlink", arg |-> ""]>>

\* The installed path is a directory holding at least one entry.
NonEmptyDir0 ==
    /\ Entry0.kind = "dir"
    /\ Children(fs0, Locate(fs0, cwd, entry.installed).path) # {}

\* C5: when the installed path is a non-empty directory and the policy
\* accepts, install fails with the I/O error of remove_dir, the filesystem
\* is unchanged and no link is attempted; and in every execution an install
\* changes at most one node, never one that had entries beneath it.
C5_NonEmptyDirGuard ==
    /\ (pc = "done" /\ Accepted /\ NonEmptyDir0) =>
           /\ result = "ENOTEMPTY"
           /\ fs = fs0
           /\ Links = {}
    /\ Ran =>
           /\ Cardinality(Changed) <= 1
           /\ \A n \in Changed : Children(fs0, n) = {}

\* C5 witness: an accepted overwrite of a non-empty directory has failed.
C5_Witness ==
    /\ pc = "done" /\ Accepted /\ NonEmptyDir0
    /\ result = "ENOTEMPTY"
    /\ Ent(fs, InstAX) = File("user")

\* C8 (as stated): AbsDotfile::new returns absolute repo and installed
\* paths, repo resolved under the dotfile repository (a relative
\* dotfile_repo taken relative to the home directory) and installed under
\* the home directory.
C8_AbsDotfileAbsolute ==
    (pc = "resolved" /\ origin.kind = "new") =>
        /\ IsAbsolute(entry.repo)
        /\ IsAbsolute(entry.installed)
        /\ entry.repo = make_abs(fs, cwd, Join(home[1], origin.repoBase),
                                 DotfileRepo(origin.d))
        /\ entry.installed = make_abs(fs, cwd, home[1], DotfileInstalled(origin.d))

\* C9: make_abs(base, p) for an absolute base is the canonical form of p
\* when p is absolute and canonicalizes, p itself when p is absolute and
\* does not, the canonical form of base/p when p is relative and base/p
\* canonicalizes, and base/p with its "." and ".." components kept when it
\* does not; the result is always absolute.
C9_MakeAbsDegrades ==
    pc = "made" =>
        LET joined == mk.base \o mk.p
            cp == Canonicalize(fs, cwd, mk.p)
            cj == Canonicalize(fs, cwd, joined)
        IN  /\ mk.out = IF IsAbsolute(mk.p)
                        THEN IF cp.ok THEN cp.path ELSE mk.p
                        ELSE IF cj.ok THEN cj.path ELSE joined
            /\ IsAbsolute(mk.out)

\* C9 witness: a relative target whose join does not canonicalize came back
\* joined, its ".." still in place.
C9_Witness ==
    /\ pc = "made"
    /\ mk.base = HomeDir /\ mk.p = <<"n", "..", "a">>
    /\ mk.out = <<"/", "h", "n", "..", "a">>
    /\ Ent(fs, InstA) = File("user")

\* ------------------------------------------------------- serde data model

\* A key of a map entry as a format's parser hands it to serde: missing,
\* null, or a string.
FieldMissing == [is |-> "missing", str |-> NoPath]
FieldNull == [is |-> "null", str |-> NoPath]
FieldStr(p) == [is |-> "string", str |-> p]

\* One element of the list in a document: a string, or a map with the
\* keys repo and installed.
StrValue(p) == [type |-> "string", str |-> p, repo |-> FieldMissing, installed |-> FieldMissing]
MapValue(r, i) == [type |-> "map", str |-> NoPath, repo |-> r, installed |-> i]

\* The two variants of SerdeDotfile.
SerdePath(p) == [variant |-> "Path", repo |-> p, installed |-> None]
SerdeAdvanced(r, i) == [variant |-> "Advanced", repo |-> r, installed |-> i]

\* Deserialize for the untagged SerdeDotfile: Path(PathBuf) is tried first
\* and takes a string; Advanced(Dotfile) takes a map whose repo is a string
\* and whose installed is a string, null or missing; anything else matches
\* no variant.
DeserializeEntry(v) ==
    IF v.type = "string" THEN [ok |-> TRUE, value |-> SerdePath(v.str)]
    ELSE IF v.type = "map" /\ v.repo.is = "string"
         THEN [ok |-> TRUE,
               value |-> SerdeAdvanced(v.repo.str,
                             IF v.installed.is = "string"
                             THEN Some(v.installed.str) ELSE None)]
         ELSE [ok |-> FALSE, value |-> SerdePath(NoPath)]

\* Deserialize for Vec<SerdeDotfile>: every element must match.
DeserializeEntries(vs) ==
    [ok |-> \A i \in 1..Len(vs) : DeserializeEntry(vs[i]).ok,
     list |-> [i \in 1..Len(vs) |-> DeserializeEntry(vs[i]).value]]

\* How an entry is written in a list file: a bare path as a string (or,
\* in the style "tables", as a map with the key repo only), an object entry
\* as a map; an installed that is not set is left out, or written as null
\* in the formats that have one.
SerializeEntry(sd, style) ==
    IF sd.variant = "Path" /\ style # "tables" THEN StrValue(sd.repo)
    ELSE MapValue(FieldStr(sd.repo),
                  IF sd.installed # None THEN FieldStr(sd.installed[1])
                  ELSE IF style = "null" THEN FieldNull ELSE FieldMissing)

SerializeEntries(list, style) ==
    [i \in 1..Len(list) |-> SerializeEntry(list[i], style)]

\* ------------------------------------------------------------------ nix.rs

\* String::from_utf8_lossy on the evaluator's stderr: a byte that is valid
\* UTF-8 on its own (here the letter A) decodes to its character, an
\* invalid byte to U+FFFD.
RECURSIVE Utf8Lossy(_)
Utf8Lossy(bytes) ==
    IF bytes = <<>> THEN <<>>
    ELSE <<IF Head(bytes) < 128 THEN Head(bytes) ELSE 65533>> \o Utf8Lossy(Tail(bytes))

\* The UTF-8 encoding of a string of the characters Utf8Lossy produces.
RECURSIVE Utf8Encode(_)
Utf8Encode(chars) ==
    IF chars = <<>> THEN <<>>
    ELSE (IF Head(chars) < 128 THEN <<Head(chars)>> ELSE <<239, 191, 189>>)
         \o Utf8Encode(Tail(chars))

NoText == <<>>
NoList == <<>>

\* A read result: the tag is Ok or the error variant; detail and text carry
\* the inner NixEvalError variant and its payload.
Outcome(tag, list, detail, text) ==
    [tag |-> tag, list |-> list, detail |-> detail, text |-> text]

\* The result of eval_file: Ok with the parsed value, or a NixEvalError
\* variant (EvalFailed with its message).
NixResult(tag, list, text) == [tag |-> tag, list |-> list, text |-> text]

\* The evaluator's output read as the wrapper object of the other formats.
ParseArrayAsWrapper(doc) ==
    LET d == DeserializeEntries(doc.items) IN
    IF doc.shape = "object" /\ d.ok THEN NixResult("Ok", d.list, NoText)
    ELSE NixResult("SerdeJSON", NoList, NoText)

\* serde_json::from_reader::<Vec<SerdeDotfile>>: stdout must be a JSON
\* array of entries.
ParseArray(doc) ==
    LET d == DeserializeEntries(doc.items) IN
    IF doc.shape = "array" /\ d.ok THEN NixResult("Ok", d.list, NoText)
    ELSE NixResult("SerdeJSON", NoList, NoText)

\* eval_file with success made to depend on the exit status.
EvalFileByStatus(run) ==
    IF run.spawn = "NotFound" THEN NixResult("NoNix", NoList, NoText)
    ELSE IF run.spawn # "Ok" THEN NixResult("CommandFailed", NoList, NoText)
    ELSE IF run.status # 0
         THEN NixResult("EvalFailed", NoList, Utf8Lossy(run.stderr))
         ELSE ParseArray(run.stdout)

\* eval_file over what Command::output() gave: the spawn error, or the
\* finished process's status, stdout and stderr.
eval_file(run) ==
    IF run.spawn = "NotFound" THEN NixResult("NoNix", NoList, NoText)
    ELSE IF run.spawn # "Ok" THEN NixResult("CommandFailed", NoList, NoText)
    ELSE IF run.stderr # <<>>
         THEN NixResult("EvalFailed", NoList, Utf8Lossy(run.stderr))
         ELSE ParseArray(run.stdout)

\* --------------------------------------------------------------- config.rs

\* A file name is its dot-separated segments: dotfiles.json is
\* <<"dotfiles", "json">>, a hidden .profile is <<"", "profile">>.
HasExtension(name) == Len(name) > 2 \/ (Len(name) = 2 /\ name[1] # "")

\* PathBuf::set_extension: the extension replaces the one the name has, or
\* is added when it has none.
SetExtension(name, ext) ==
    IF HasExtension(name) THEN Front(name) \o <<ext>> ELSE name \o <<ext>>

\* The same candidates with the static formats ahead of Nix.
CandidatesNixLast ==
    <<[ext |-> "json", filetype |-> "JSON"],
      [ext |-> "toml", filetype |-> "TOML"],
      [ext |-> "yaml", filetype |-> "YAML"],
      [ext |-> "yml", filetype |-> "YAML"],
      [ext |-> "nix", filetype |-> "Nix"]>>

\* DotfileListFiletype and its extensions(), flattened in dotfiles_paths'
\* order: Nix, JSON, TOML, YAML (yaml, then yml).
Candidates ==
    <<[ext |-> "nix", filetype |-> "Nix"],
      [ext |-> "json", filetype |-> "JSON"],
      [ext |-> "toml", filetype |-> "TOML"],
      [ext |-> "yaml", filetype |-> "YAML"],
      [ext |-> "yml", filetype |-> "YAML"]>>

\* Config::dotfiles_basename_extension
dotfiles_basename_extension(cfg, ext) == SetExtension(cfg.dotfiles_basename, ext)

\* Config::dotfiles_filename: a path is here the directory and the file name.
dotfiles_filename(cfg, ext) ==
    [dir |-> cfg.dotfile_repo, name |-> dotfiles_basename_extension(cfg, ext)]

\* Config::dotfiles_paths
dotfiles_paths(cfg) ==
    [i \in 1..Len(Candidates) |->
        [path |-> dotfiles_filename(cfg, Candidates[i].ext),
         filetype |-> Candidates[i].filetype]]

\* The state of a list file in the repository directory.
FileAt(files, path) ==
    IF path.name \in DOMAIN files THEN files[path.name].state ELSE "absent"

\* Path::exists on a candidate.
ListExists(files, path) == FileAt(files, path) # "absent"

\* The entries a candidate holds: they name the file they came from.
Items(name) ==
    <<SerdePath(<<Last(name)>>), SerdeAdvanced(<<"a">>, Some(<<Last(name)>>))>>

\* A list file: its state, and for a document its $schema key and the
\* elements of its list.
ListFile(state, schema, items) == [state |-> state, schema |-> schema, items |-> items]

\* The document in a readable list file.
DocOf(files, path) ==
    [shape |-> FileAt(files, path),
     schema |-> files[path.name].schema,
     items |-> files[path.name].items]

\* The conversion with a bare path installed under its own name explicitly.
ToDotfileInstalledSet(sd) ==
    IF sd.variant = "Path"
    THEN [repo |-> sd.repo, installed |-> Some(sd.repo)]
    ELSE [repo |-> sd.repo, installed |-> sd.installed]

\* From<SerdeDotfile> for Dotfile, with From<PathBuf> for Dotfile.
ToDotfile(sd) ==
    IF sd.variant = "Path"
    THEN [repo |-> sd.repo, installed |-> None]
    ELSE [repo |-> sd.repo, installed |-> sd.installed]

\* SerdeDotfileList::dotfiles
ListDotfiles(items) == [i \in 1..Len(items) |-> ToDotfile(items[i])]

\* Deserializing SerdeDotfileList: an object with a dotfiles sequence; its
\* $schema key, set or not, takes no part in the result.
ParseWrapper(doc, errTag) ==
    LET d == DeserializeEntries(doc.items) IN
    IF doc.shape = "object" /\ d.ok THEN Outcome("Ok", d.list, "", NoText)
    ELSE Outcome(errTag, NoList, "", NoText)

\* Config::dotfiles, the Nix arm: the evaluator's JSON error becomes the
\* loader's SerdeJSON, every other NixEvalError is wrapped in NixEval.
ReadNix(run) ==
    LET r == eval_file(run) IN
    CASE r.tag = "Ok" -> Outcome("Ok", r.list, "", NoText)
      [] r.tag = "SerdeJSON" -> Outcome("SerdeJSON", NoList, "", NoText)
      [] OTHER -> Outcome("NixEval", NoList, r.tag, r.text)

\* dotfiles_path falling back to the first candidate that can be opened.
DotfilesPathSkipUnreadable(cfg, files) ==
    LET paths == dotfiles_paths(cfg)
        found == {i \in DOMAIN paths : FileAt(files, paths[i].path) \notin {"absent", "locked"}}
    IN  IF found = {} THEN [tag |-> "NoneFound", index |-> 0]
        ELSE [tag |-> "Ok", index |-> CHOOSE j \in found : \A k \in found : j <= k]

\* Config::dotfiles_path: the first candidate that exists, opened.
dotfiles_path(cfg, files) ==
    LET paths == dotfiles_paths(cfg)
        found == {i \in DOMAIN paths : ListExists(files, paths[i].path)}
    IN  IF found = {} THEN [tag |-> "NoneFound", index |-> 0]
        ELSE LET i == CHOOSE j \in found : \A k \in found : j <= k
             IN  IF FileAt(files, paths[i].path) = "locked"
                 THEN [tag |-> "File", index |-> i]
                 ELSE [tag |-> "Ok", index |-> i]

\* Config::dotfiles: the selected candidate read in its format.  The result
\* also records which candidate was opened and which reader was used.
dotfiles(cfg, files, run) ==
    LET sel == dotfiles_path(cfg, files)
        paths == dotfiles_paths(cfg)
        none == [dir |-> NoPath, name |-> <<>>]
    IN  IF sel.tag = "NoneFound"
        THEN Outcome("NoneFound", NoList, "", NoText) @@ [opened |-> none, reader |-> ""]
        ELSE IF sel.tag = "File"
        THEN Outcome("File", NoList, "", NoText)
             @@ [opened |-> paths[sel.index].path, reader |-> ""]
        ELSE LET c == paths[sel.index]
                 doc == DocOf(files, c.path)
                 r == CASE c.filetype = "JSON" -> ParseWrapper(doc, "SerdeJSON")
                        [] c.filetype = "YAML" -> ParseWrapper(doc, "SerdeYAML")
                        [] c.filetype = "TOML" -> ParseWrapper(doc, "SerdeTOML")
                        [] c.filetype = "Nix" -> ReadNix(run)
             IN  [r EXCEPT !.list = ListDotfiles(r.list)]
                 @@ [opened |-> c.path, reader |-> c.filetype]

\* TryFrom<SerdeConfig> for Config: each missing key takes its default; the
\* default repository needs the home directory.
ConfigFromSerde(sc, h) ==
    IF sc.dotfile_repo = None /\ h = None
    THEN [tag |-> "NoHome", config |-> [dotfile_repo |-> NoPath, dotfiles_basename |-> <<>>],
          path |-> NoPath]
    ELSE [tag |-> "Ok",
          config |-> [dotfile_repo |-> IF sc.dotfile_repo = None
                                       THEN Join(h[1], <<".dotfiles">>)
                                       ELSE sc.dotfile_repo[1],
                      dotfiles_basename |-> IF sc.dotfiles_basename = None
                                            THEN <<"dotfiles">>
                                            ELSE sc.dotfiles_basename[1]],
          path |-> NoPath]

\* SerdeConfig::default()
SerdeConfigDefault == [dotfile_repo |-> None, dotfiles_basename |-> None]

\* Config::try_default
try_default(h) == ConfigFromSerde(SerdeConfigDefault, h)

ConfigError(tag, p) ==
    [tag |-> tag, config |-> [dotfile_repo |-> NoPath, dotfiles_basename |-> <<>>],
     path |-> p]

\* toml::from_str::<SerdeConfig> under deny_unknown_fields: a document is
\* the table of its keys; a syntax error or an unknown key is an error.
ParseSerdeConfig(doc) ==
    IF ~doc.wellformed \/ DOMAIN doc.table \ {"dotfile_repo", "dotfiles_basename"} # {}
    THEN [ok |-> FALSE, value |-> SerdeConfigDefault]
    ELSE [ok |-> TRUE,
          value |-> [dotfile_repo |-> IF "dotfile_repo" \in DOMAIN doc.table
                                      THEN Some(doc.table["dotfile_repo"]) ELSE None,
                     dotfiles_basename |-> IF "dotfiles_basename" \in DOMAIN doc.table
                                           THEN Some(doc.table["dotfiles_basename"])
                                           ELSE None]]

\* The resolver with the default repository used whenever either key is
\* missing.
ConfigFromPathCoupled(p, file, h) ==
    IF file.state = "absent" THEN ConfigError("NotFound", p)
    ELSE IF file.state = "locked" THEN ConfigError("File", p)
    ELSE LET sc == ParseSerdeConfig(file.doc) IN
         IF ~sc.ok THEN ConfigError("SerdeTOML", p)
         ELSE IF sc.value.dotfile_repo = None \/ sc.value.dotfiles_basename = None
              THEN try_default(h)
              ELSE ConfigFromSerde(sc.value, h)

\* TryFrom<&Path> for Config
ConfigFromPath(p, file, h) ==
    IF file.state = "absent" THEN ConfigError("NotFound", p)
    ELSE IF file.state = "locked" THEN ConfigError("File", p)
    ELSE LET sc == ParseSerdeConfig(file.doc) IN
         IF ~sc.ok THEN ConfigError("SerdeTOML", p)
         ELSE ConfigFromSerde(sc.value, h)

\* ------------------------------------------------------------ loader runs

\* The standard-error outputs: byte strings over a valid byte (A) and an
\* invalid one, up to MaxErrLen long.
ErrBytes == UNION {[1..n -> {65, 255}] : n \in 0..MaxErrLen}

NixName == <<"dotfiles", "nix">>
StaticNames == {<<"dotfiles", e>> : e \in {"json", "toml", "yaml", "yml"}}

\* The list files in the repository directory: each static candidate is
\* absent, unreadable, or holds garbage, a wrapper object or a bare array;
\* the Nix candidate is absent, unreadable or a source file.
ListFiles ==
    {[n \in StaticNames \cup {NixName} |->
        ListFile(IF n = NixName THEN nx ELSE sf[n], None,
                 SerializeEntries(Items(n), "omit"))] :
        sf \in [StaticNames -> {"absent", "locked", "garbage", "object", "array"}],
        nx \in {"absent", "locked", "source"}}

NoRun ==
    [spawn |-> "NotFound", status |-> 0, stderr |-> <<>>,
     stdout |-> [shape |-> "garbage", items |-> SerializeEntries(Items(NixName), "omit")]]

\* What running nix-instantiate gives: it cannot be started (not found, or
\* another error), or it finishes with a status, a stdout and a stderr.
Runs ==
    {NoRun, [NoRun EXCEPT !.spawn = "Denied"]}
    \cup [spawn : {"Ok"}, status : {0, 1}, stderr : ErrBytes,
          stdout : [shape : {"garbage", "object", "array"},
                    items : {SerializeEntries(Items(NixName), "omit")}]]

NoOut == Outcome("", NoList, "", NoText) @@ [opened |-> [dir |-> NoPath, name |-> <<>>], reader |-> ""]

\* Config::dotfiles on the configuration and repository directory at hand.
Load ==
    /\ ld.phase = "ready"
    /\ ld' = [ld EXCEPT !.phase = "done", !.out = dotfiles(ld.cfg, ld.files, ld.run)]
    /\ UNCHANGED <<fs, cwd, home, pc, entry, origin, fs0, log, result, mk, cf, bt>>

InitLoad ==
    /\ \E bn \in {<<"dotfiles">>, <<"dotfiles", "d">>}, files \in ListFiles, run \in Runs :
        \* the evaluator only matters where there is a source file to run it on
        /\ files[NixName].state # "source" => run = NoRun
        /\ ld = [phase |-> "ready",
                 cfg |-> [dotfile_repo |-> RepoDir, dotfiles_basename |-> bn],
                 files |-> files, run |-> run, out |-> NoOut]
    /\ fs = NoFs /\ cwd = Root /\ home = Some(HomeDir)
    /\ pc = "load"
    /\ entry = NoEntry /\ origin = NoOrigin /\ fs0 = NoFs /\ log = <<>>
    /\ result = "none" /\ mk = NoMk /\ cf = NoCf /\ bt = NoBt

NextLoad == Load

SpecLoad == InitLoad /\ [][NextLoad]_vars

\* ------------------------------------------------------------ format runs

\* The entries a logical list is made of: bare paths and object entries,
\* with and without an installed path.
LogicalEntries ==
    {SerdePath(<<"a">>), SerdePath(<<"b">>),
     SerdeAdvanced(<<"a">>, None),
     SerdeAdvanced(<<"a">>, Some(<<"b">>)),
     SerdeAdvanced(<<"b">>, Some(<<"a">>))}

LogicalLists == UNION {[1..n -> LogicalEntries] : n \in 0..MaxList}

Exts == {"nix", "json", "toml", "yaml", "yml"}

\* A repository directory that holds a logical list in one format only:
\* the wrapper object for json, toml, yaml and yml, a source file for nix.
\* TOML has no null, so an installed that is not set is always left out.
OneListFile(ext, list, schema, style) ==
    [n \in StaticNames \cup {NixName} |->
        IF n # <<"dotfiles", ext>> THEN ListFile("absent", None, <<>>)
        ELSE IF ext = "nix" THEN ListFile("source", None, <<>>)
        ELSE ListFile("object", schema,
                      SerializeEntries(list, IF ext = "toml" /\ style = "null"
                                             THEN "omit" ELSE style))]

\* The evaluator on a Nix source holding the list: the bare array as JSON.
ListRun(list, style) ==
    [spawn |-> "Ok", status |-> 0, stderr |-> <<>>,
     stdout |-> [shape |-> "array", items |-> SerializeEntries(list, style)]]

\* Config::dotfiles on a repository that holds the list in the format ext.
LoadAs(ext) ==
    /\ ld.phase = "formats"
    /\ ld.outs[ext] = NoOut
    /\ ld' = [ld EXCEPT !.outs[ext] =
                 dotfiles([dotfile_repo |-> RepoDir, dotfiles_basename |-> <<"dotfiles">>],
                          OneListFile(ext, ld.list, ld.schema, ld.style),
                          ListRun(ld.list, ld.style))]
    /\ UNCHANGED <<fs, cwd, home, pc, entry, origin, fs0, log, result, mk, cf, bt>>

InitFormats ==
    /\ \E list \in LogicalLists, schema \in {None, Some(<<"schema.json">>)},
          style \in {"omit", "null", "tables"} :
        ld = [phase |-> "formats", list |-> list, schema |-> schema, style |-> style,
              outs |-> [e \in Exts |-> NoOut]]
    /\ fs = NoFs /\ cwd = Root /\ home = Some(HomeDir)
    /\ pc = "load"
    /\ entry = NoEntry /\ origin = NoOrigin /\ fs0 = NoFs /\ log = <<>>
    /\ result = "none" /\ mk = NoMk /\ cf = NoCf /\ bt = NoBt

NextFormats == \E ext \in Exts : LoadAs(ext)

SpecFormats == InitFormats /\ [][NextFormats]_vars

\* ------------------------------------------------------ config resolver runs

ConfigPaths == {<<"/", "h", "cfg.toml">>, <<"cfg.toml">>}

\* The tables a config document may hold: any of the two recognized keys
\* and an unrecognized one, each with one of two values.
ConfigTables ==
    UNION {[ks -> {<<".dotfiles">>, <<"/", "h", "r">>, <<"dotfiles_list">>}] :
           ks \in SUBSET {"dotfile_repo", "dotfiles_basename", "other"}}

ConfigFiles ==
    {[state |-> "absent", doc |-> [wellformed |-> FALSE, table |-> <<>>]],
     [state |-> "locked", doc |-> [wellformed |-> FALSE, table |-> <<>>]],
     [state |-> "present", doc |-> [wellformed |-> FALSE, table |-> <<>>]]}
    \cup {[state |-> "present", doc |-> [wellformed |-> TRUE, table |-> t]] :
          t \in ConfigTables}

NoConfig == ConfigError("", NoPath)

\* Config::try_from(path)
ResolveConfig ==
    /\ cf.phase = "ready"
    /\ cf' = [cf EXCEPT !.phase = "resolved",
                        !.out = ConfigFromPath(cf.path, cf.file, home)]
    /\ UNCHANGED <<fs, cwd, home, pc, entry, origin, fs0, log, result, mk, ld, bt>>

\* Config::try_default()
DefaultConfig ==
    /\ cf.phase = "ready"
    /\ cf' = [cf EXCEPT !.phase = "defaulted", !.out = try_default(home)]
    /\ UNCHANGED <<fs, cwd, home, pc, entry, origin, fs0, log, result, mk, ld, bt>>

InitConfig ==
    /\ \E p \in ConfigPaths, file \in ConfigFiles :
        cf = [phase |-> "ready", path |-> p, file |-> file, out |-> NoConfig]
    /\ home \in {None, Some(HomeDir), Some(<<"/", "root">>)}
    /\ fs = NoFs /\ cwd = Root
    /\ pc = "config"
    /\ entry = NoEntry /\ origin = NoOrigin /\ fs0 = NoFs /\ log = <<>>
    /\ result = "none" /\ mk = NoMk /\ ld = NoLd /\ bt = NoBt

NextConfig == ResolveConfig \/ DefaultConfig

SpecConfig == InitConfig /\ [][NextConfig]_vars

\* C6: for an extension-less basename and every set of existing candidates
\* <basename>.nix/.json/.toml/.yaml/.yml, the loader opens the first
\* existing one in that order and reads it with its format (Nix, JSON, TOML,
\* YAML, YAML); it fails with NoneFound exactly when none exists.
C6_ListFilePriority ==
    (ld.phase = "done" /\ ~HasExtension(ld.cfg.dotfiles_basename)) =>
        LET exts == <<"nix", "json", "toml", "yaml", "yml">>
            formats == <<"Nix", "JSON", "TOML", "YAML", "YAML">>
            cand(i) == [dir |-> ld.cfg.dotfile_repo,
                        name |-> ld.cfg.dotfiles_basename \o <<exts[i]>>]
            existing == {i \in 1..5 : FileAt(ld.files, cand(i)) # "absent"}
        IN  /\ (ld.out.tag = "NoneFound") <=> (existing = {})
            /\ \A i \in existing :
                   (\A k \in existing : i <= k) =>
                       /\ ld.out.opened = cand(i)
                       /\ FileAt(ld.files, cand(i)) # "locked" =>
                              ld.out.reader = formats[i]
                       /\ FileAt(ld.files, cand(i)) = "locked" =>
                              ld.out.tag = "File"

\* C6 witness: with .toml, .yaml and .yml present and .nix and .json absent,
\* the loader has read dotfiles.toml as TOML.
C6_Witness ==
    /\ ld.phase = "done"
    /\ ld.cfg.dotfiles_basename = <<"dotfiles">>
    /\ ld.files[NixName].state = "absent" /\ ld.files[<<"dotfiles", "json">>].state = "absent"
    /\ ld.files[<<"dotfiles", "toml">>].state = "object"
    /\ ld.files[<<"dotfiles", "yaml">>].state = "object"
    /\ ld.files[<<"dotfiles", "yml">>].state = "object"
    /\ ld.out.reader = "TOML" /\ ld.out.tag = "Ok"
    /\ ld.out.list = ListDotfiles(Items(<<"dotfiles", "toml">>))

\* C7: the result of loading a Nix list is decided by how the evaluator
\* started, its stderr and its stdout, whatever its exit status: not found
\* gives NoNix; a non-empty stderr gives EvalFailed with that text (byte for
\* byte when it is valid UTF-8); an empty stderr gives SerdeJSON, the error
\* of a malformed .json file, unless stdout is an array of entries, which
\* gives the list.
C7_EvaluatorOutcome ==
    /\ (ld.phase = "done" /\ ld.out.reader = "Nix") =>
        LET run == ld.run
            out == ld.out
        IN  /\ run.spawn = "NotFound" => (out.tag = "NixEval" /\ out.detail = "NoNix")
            /\ (run.spawn = "Ok" /\ run.stderr # <<>>) =>
                   /\ out.tag = "NixEval" /\ out.detail = "EvalFailed"
                   /\ Len(out.text) = Len(run.stderr)
                   /\ (\A i \in 1..Len(run.stderr) : run.stderr[i] < 128) =>
                          Utf8Encode(out.text) = run.stderr
            /\ (run.spawn = "Ok" /\ run.stderr = <<>> /\ run.stdout.shape # "array") =>
                   out.tag = "SerdeJSON"
            /\ (run.spawn = "Ok" /\ run.stderr = <<>> /\ run.stdout.shape = "array") =>
                   /\ out.tag = "Ok"
                   /\ Len(out.list) = Len(run.stdout.items)
                   /\ \A i \in 1..Len(out.list) :
                          out.list[i].repo = Items(NixName)[i].repo
    /\ (ld.phase = "done" /\ ld.out.reader = "JSON"
            /\ FileAt(ld.files, ld.out.opened) # "object") =>
        ld.out.tag = "SerdeJSON"

\* C7 witness: the evaluator exited with status 0 and a valid array on
\* stdout, but wrote to stderr, and the load failed with EvalFailed.
C7_Witness ==
    /\ ld.phase = "done" /\ ld.out.reader = "Nix"
    /\ ld.run.spawn = "Ok" /\ ld.run.status = 0
    /\ ld.run.stdout.shape = "array"
    /\ ld.run.stderr = <<65>>
    /\ ld.out.tag = "NixEval" /\ ld.out.detail = "EvalFailed" /\ ld.out.text = <<65>>

\* C10: a config document that parses resolves to its own value for each
\* key it sets and to the default (<home>/.dotfiles, "dotfiles") for each it
\* does not, one key independently of the other; an empty document
\* resolves as Config::try_default() does; NoHome is returned exactly when
\* dotfile_repo is not set and there is no home directory; a path that does
\* not exist gives NotFound with that path.
C10_ConfigDefaulting ==
    cf.phase = "resolved" =>
        LET t == cf.file.doc.table
            parses == /\ cf.file.state = "present" /\ cf.file.doc.wellformed
                      /\ DOMAIN t \subseteq {"dotfile_repo", "dotfiles_basename"}
        IN  /\ cf.file.state = "absent" =>
                   (cf.out.tag = "NotFound" /\ cf.out.path = cf.path)
            /\ (cf.out.tag = "NoHome") <=>
                   (parses /\ "dotfile_repo" \notin DOMAIN t /\ home = None)
            /\ (parses /\ cf.out.tag # "NoHome") =>
                   /\ cf.out.tag = "Ok"
                   /\ cf.out.config.dotfile_repo =
                          IF "dotfile_repo" \in DOMAIN t THEN t["dotfile_repo"]
                          ELSE home[1] \o <<".dotfiles">>
                   /\ cf.out.config.dotfiles_basename =
                          IF "dotfiles_basename" \in DOMAIN t THEN t["dotfiles_basename"]
                          ELSE <<"dotfiles">>
            /\ (parses /\ DOMAIN t = {}) => cf.out = try_default(home)

\* C10 witness: a document that sets only dotfiles_basename resolved to the
\* default repository with the document's basename.
C10_Witness ==
    /\ cf.phase = "resolved"
    /\ cf.file.state = "present" /\ cf.file.doc.wellformed
    /\ DOMAIN cf.file.doc.table = {"dotfiles_basename"}
    /\ cf.file.doc.table["dotfiles_basename"] = <<"dotfiles_list">>
    /\ home = Some(HomeDir)
    /\ cf.out.tag = "Ok"
    /\ cf.out.config = [dotfile_repo |-> <<"/", "h", ".dotfiles">>,
                        dotfiles_basename |-> <<"dotfiles_list">>]

\* C15 (as stated): for every configuration, a basename holding a '.'
\* included, the five candidates the loader examines are
\* <dotfile_repo>/<dotfiles_basename>.<ext> for ext = nix, json, toml, yaml,
\* yml (the extension appended to the whole basename), and the file it opens
\* is one of them.
C15_CandidateAppendsExtension ==
    ld.phase = "done" =>
        LET exts == <<"nix", "json", "toml", "yaml", "yml">>
            paths == dotfiles_paths(ld.cfg)
            appended(i) == [dir |-> ld.cfg.dotfile_repo,
                            name |-> ld.cfg.dotfiles_basename \o <<exts[i]>>]
        IN  /\ Len(paths) = 5
            /\ \A i \in 1..5 : paths[i].path = appended(i)
            /\ ld.out.tag # "NoneFound" =>
                   \E i \in 1..5 : ld.out.opened = appended(i)

\* C17: one load opens exactly the highest-priority existing candidate and
\* no other.  When that candidate cannot be opened the load returns File;
\* when it does not parse, the error of its format (SerdeJSON, SerdeTOML,
\* SerdeYAML); when its evaluation fails, NixEval or the evaluator's
\* SerdeJSON.  A failed load returns no entries, whatever the candidates
\* of lower priority hold, and a successful one returns the entries of the
\* selected candidate.
C17_NoFallbackAfterSelection ==
    (ld.phase = "done" /\ ld.out.tag # "NoneFound") =>
        LET paths == dotfiles_paths(ld.cfg)
            existing == {i \in DOMAIN paths : FileAt(ld.files, paths[i].path) # "absent"}
            sel == CHOOSE i \in existing : \A k \in existing : i <= k
            state == FileAt(ld.files, paths[sel].path)
            format == paths[sel].filetype
            evaluated == /\ ld.run.spawn = "Ok" /\ ld.run.stderr = <<>>
                         /\ ld.run.stdout.shape = "array"
            readable == IF format = "Nix" THEN state = "source" /\ evaluated
                        ELSE state = "object"
        IN  /\ existing # {}
            /\ ld.out.opened = paths[sel].path
            /\ state = "locked" => ld.out.tag = "File"
            /\ (state # "locked" /\ ~readable) =>
                   ld.out.tag \in
                       CASE format = "JSON" -> {"SerdeJSON"}
                         [] format = "TOML" -> {"SerdeTOML"}
                         [] format = "YAML" -> {"SerdeYAML"}
                         [] format = "Nix" -> {"NixEval", "SerdeJSON"}
            /\ ~readable => (ld.out.tag # "Ok" /\ ld.out.list = <<>>)
            /\ readable =>
                   /\ ld.out.tag = "Ok"
                   /\ \A i \in 1..Len(ld.out.list) :
                          <<Last(paths[sel].path.name)>> \in
                              {ld.out.list[i].repo} \cup
                              {ld.out.list[i].installed[j] :
                                   j \in 1..Len(ld.out.list[i].installed)}

\* C17 witness: dotfiles.json is the first existing candidate and holds
\* garbage, dotfiles.toml and dotfiles.yaml below it are valid, and the load
\* has failed with SerdeJSON after opening dotfiles.json only.
C17_Witness ==
    /\ ld.phase = "done"
    /\ ld.cfg.dotfiles_basename = <<"dotfiles">>
    /\ ld.files[NixName].state = "absent"
    /\ ld.files[<<"dotfiles", "json">>].state = "garbage"
    /\ ld.files[<<"dotfiles", "toml">>].state = "object"
    /\ ld.files[<<"dotfiles", "yaml">>].state = "object"
    /\ ld.out.tag = "SerdeJSON" /\ ld.out.list = <<>>
    /\ ld.out.opened = [dir |-> RepoDir, name |-> <<"dotfiles", "json">>]

\* The declared locations of the Dotfile behind the current entry: its
\* installed path under the home directory and its repo path under the
\* repository directory, before any symlink is resolved.
DeclaredInstalled == Join(home[1], DotfileInstalled(origin.d))
DeclaredRepo == Join(origin.repoBase, DotfileRepo(origin.d))

\* The state a successful install leaves: the declared repo path resolves
\* to a file R and the declared installed location is a symlink holding R.
InstalledBefore ==
    /\ origin.kind = "new" /\ Ran
    /\ LET c == Canonicalize(fs0, cwd, DeclaredRepo) IN
        /\ c.ok /\ Ent(fs0, c.path).kind = "file"
        /\ LEntry(fs0, cwd, DeclaredInstalled) = Symlink(c.path)

\* C16 (as stated): when an entry whose installed location is already a
\* symlink to its repository file R is resolved again with AbsDotfile::new
\* and installed, whatever the policy answers, the resolved installed path
\* differs from the resolved repo path, R is left as it was, and the only
\* place that changes is the declared installed location.
C16_RerunKeepsRepoCopy ==
    (pc = "done" /\ InstalledBefore) =>
        LET R == Canonicalize(fs0, cwd, DeclaredRepo).path
            I == Locate(fs0, cwd, DeclaredInstalled).path
        IN  /\ entry.installed # entry.repo
            /\ Ent(fs, R) = Ent(fs0, R)
            /\ Changed \subseteq {I}

\* C14: when an accepted overwrite is interrupted after the removal and
\* before the symlink exists, the installed path is absent and every other
\* place is as the install found it; the next install of the same entry
\* never reaches the question or the removal, and ends Ok with the installed
\* path a symlink to the entry's repo path.
C14_InterruptedOverwriteRecovers ==
    /\ pc = "interrupted" =>
           /\ EntryNow = Absent
           /\ Changed = {Locate(fs0, cwd, entry.installed).path}
    /\ origin.kind = "rerun" =>
           /\ pc \in {"resolved", "link", "done", "idle"}
           /\ pc = "done" =>
                  /\ result = "Ok"
                  /\ Queries = 0 /\ Removals = {}
                  /\ EntryNow = Symlink(entry.repo)

\* C14 witness: the install of /h/r/a at /h/a, interrupted after the file
\* at /h/a had been removed, was run again and has linked /h/a to /h/r/a
\* without a question.
C14_Witness ==
    /\ origin.kind = "rerun" /\ pc = "done" /\ result = "Ok"
    /\ entry = [repo |-> RepoA, installed |-> InstA]
    /\ Ent(fs0, InstA) = Absent
    /\ Ent(fs, InstA) = Symlink(RepoA)
    /\ Ent(fs, RepoA) = File("repo")
    /\ log = <<[op |-> "symlink", arg |-> ""]>>

\* The formats in which the list has been loaded so far.
Loaded == {e \in Exts : ld.outs[e] # NoOut}

\* C11: a logical list written as the wrapper object in a .json, .toml,
\* .yaml or .yml file (with or without a $schema key) or as a bare array in
\* a .nix file loads successfully in each format, each with its own reader,
\* and any two formats give the same Vec<Dotfile>: as many entries as the
\* list declares, with the same repo and installed fields in the same order.
C11_FormatEquivalence ==
    ld.phase = "formats" =>
        LET reader == [e \in Exts |->
                          CASE e = "nix" -> "Nix" [] e = "json" -> "JSON"
                            [] e = "toml" -> "TOML" [] OTHER -> "YAML"]
        IN  /\ \A e \in Loaded :
                   /\ ld.outs[e].tag = "Ok"
                   /\ ld.outs[e].reader = reader[e]
                   /\ ld.outs[e].opened.name = <<"dotfiles", e>>
                   /\ Len(ld.outs[e].list) = Len(ld.list)
            /\ \A e1 \in Loaded, e2 \in Loaded : ld.outs[e1].list = ld.outs[e2].list

\* C11 witness: a list of a bare path and an object entry without an
\* installed path, written with a $schema key and a null installed, has been
\* loaded in all five formats.
C11_Witness ==
    /\ ld.phase = "formats"
    /\ Loaded = Exts
    /\ ld.list = <<SerdePath(<<"b">>), SerdeAdvanced(<<"a">>, None)>>
    /\ ld.schema # None /\ ld.style = "null"
    /\ ld.outs["toml"].list = ld.outs["nix"].list
    /\ ld.outs["nix"].list = <<[repo |-> <<"b">>, installed |-> None],
                               [repo |-> <<"a">>, installed |-> None]>>

\* C12: the loader returns one Dotfile per declared entry in declaration
\* order; a bare path p becomes Dotfile{repo: p, installed: None} and an
\* object entry {repo: a, installed: b} becomes Dotfile{repo: a,
\* installed: Some(b)}; on every Dotfile, installed() is the installed field
\* when it is set and repo() otherwise, and repo() is the repo field.
C12_EntryNormalization ==
    ld.phase = "formats" =>
        \A e \in Loaded :
            LET out == ld.outs[e].list IN
            /\ Len(out) = Len(ld.list)
            /\ \A i \in 1..Len(ld.list) :
                   LET declared == ld.list[i]
                       d == out[i]
                   IN  /\ DOMAIN d = {"repo", "installed"}
                       /\ d.repo = declared.repo
                       /\ declared.variant = "Path" => d.installed = None
                       /\ declared.variant = "Advanced" => d.installed = declared.installed
                       /\ DotfileRepo(d) = d.repo
                       /\ d.installed # None => DotfileInstalled(d) = d.installed[1]
                       /\ d.installed = None => DotfileInstalled(d) = d.repo

\* C12 witness: the YAML loader has returned, in order, the Dotfile of an
\* object entry with an installed path and the Dotfile of a bare path.
C12_Witness ==
    /\ ld.phase = "formats"
    /\ "yaml" \in Loaded
    /\ ld.list = <<SerdeAdvanced(<<"a">>, Some(<<"b">>)), SerdePath(<<"b">>)>>
    /\ ld.outs["yaml"].list = <<[repo |-> <<"a">>, installed |-> Some(<<"b">>)],
                                [repo |-> <<"b">>, installed |-> None]>>
    /\ DotfileInstalled(ld.outs["yaml"].list[1]) = <<"b">>
    /\ DotfileInstalled(ld.outs["yaml"].list[2]) = <<"b">>

\* The declared installed location of a list entry, under the home directory.
BatchInstalled(d) == Join(home[1], DotfileInstalled(d))

\* C13: a batch takes the entries of the declared list one at a time in
\* list order: the recorded outcomes (with their prompts) follow the list,
\* the entry in progress is the next one, and every entry before the last
\* recorded one succeeded.  When an entry fails the batch ends with that
\* entry's error: nothing is in progress, no later entry has an outcome,
\* the installed locations of the later entries are as the batch found
\* them, and every earlier entry's installed location is still a symlink to
\* its repo path.
C13_FailFastInListOrder ==
    bt.phase # "off" =>
        LET n == Len(bt.trail) IN
        /\ n <= Len(bt.list)
        /\ \A j \in 1..n : bt.trail[j].d = bt.list[j]
        /\ \A j \in 1..(n - 1) : bt.trail[j].result = "Ok"
        /\ pc # "idle" => (n < Len(bt.list) /\ origin.d = bt.list[n + 1])
        /\ (bt.phase = "run" /\ n > 0) => bt.trail[n].result = "Ok"
        /\ bt.phase = "finished" =>
               /\ pc = "idle" /\ log = <<>> /\ entry = NoEntry
               /\ bt.error = "Ok" =>
                      (n = Len(bt.list) /\ \A j \in 1..n : bt.trail[j].result = "Ok")
               /\ bt.error # "Ok" =>
                      /\ n >= 1
                      /\ bt.trail[n].result = bt.error
                      /\ \A j \in 1..(n - 1) :
                             LEntry(fs, cwd, bt.trail[j].entry.installed) =
                                 Symlink(bt.trail[j].entry.repo)
                      /\ home # None =>
                             \A j \in (n + 1)..Len(bt.list) :
                                 LEntry(fs, cwd, BatchInstalled(bt.list[j])) =
                                     LEntry(bt.found, cwd, BatchInstalled(bt.list[j]))

\* C13 witness: in the list a, b, a-under-n the first entry was linked, the
\* overwrite of the file at b was declined, and the batch ended with
\* AlreadyExists without attempting the third entry.
C13_Witness ==
    /\ bt.phase = "finished"
    /\ Len(bt.list) = 3 /\ Len(bt.trail) = 2
    /\ bt.list[1].repo = <<"a">> /\ bt.list[2].repo = <<"b">>
    /\ bt.trail[1].result = "Ok"
    /\ bt.trail[2].log = <<[op |-> "query", arg |-> "decline"]>>
    /\ bt.error = "AlreadyExists"
    /\ Ent(fs, InstA) = Symlink(RepoA)
    /\ Ent(fs, InstB) = File("user")

====
